---- MODULE Spec2Model ----
(***************************************************************************)
(* Model of the Kite REST client (src/kiteclient/__init__.py): the Kite    *)
(* class, its mutators, and the request dispatch / response                *)
(* classification pipeline of Kite._request.                               *)
(*                                                                         *)
(* Python strings are modelled as sequences of tokens; "{" and "}" are     *)
(* always tokens of their own, so that str.replace on a "{key}"            *)
(* placeholder is a subsequence replacement.                               *)
(***************************************************************************)
EXTENDS Integers, Sequences, FiniteSets, TLC

VARIABLES
    kites,      \* instance attributes of every Kite object
    defaults,   \* the shared default dict `params={}` of _get/_post/_put/_delete
    pc,         \* per thread: position inside an endpoint call
    frame,      \* per thread: locals of the call in progress
    sent,       \* per thread: the HTTP request handed to requests.request
    resp,       \* per thread: what the transport answered
    rv,         \* per thread: outcome of Kite._request
    result,     \* per thread: outcome of the endpoint method
    hookCalls,  \* per thread: callbacks invoked during the call, in order
    ncalls,     \* per thread: calls begun (bounded in the threaded runs)
    lastHook    \* per Kite: the callback last passed to session_hook (history)

vars == <<kites, defaults, pc, frame, sent, resp, rv, result, hookCalls, ncalls, lastHook>>

-----------------------------------------------------------------------------
(* Values *)

None == "None"
Unset == "Unset"

Kites == {"k1", "k2"}
Threads == {"t1", "t2"}
Tokens == {"tA", "tB"}
Roots == {"https://alt.example"}
Hooks == {"h1", "h2"}
Verbs == {"GET", "POST", "PUT", "DELETE"}

\* calls one thread may begin in the threaded runs
MaxCalls == 1

\* Python truthiness of the attribute values used here
Truthy(v) == v \notin {None, ""}

\* str(x) of an atom, as a token sequence
Str(a) == <<a>>

EmptyDict == [k \in {} |-> <<>>]

\* d[k] = v on a dict
Put(d, k, v) == [x \in (DOMAIN d) \cup {k} |-> IF x = k THEN v ELSE d[x]]

\* Python objects that a call can return
NoneObj == [pytype |-> "NoneType"]
PyStr(s) == [pytype |-> "str", content |-> s]
PyDict(items) == [pytype |-> "dict", items |-> items]

-----------------------------------------------------------------------------
(* Class attributes *)

_root == "http://localhost:8000"

_routes ==
    [ login |-> <<"/user/login">>,
      logout |-> <<"/user/logout">>,
      profile |-> <<"/user/profile">>,
      margins |-> <<"/user/margins/", "{", "segment", "}">>,
      session_hash |-> <<"/user/session_hash">>,
      orders |-> <<"/orders">>,
      order_info |-> <<"/orders/", "{", "order_id", "}">>,
      order_modify |-> <<"/orders/", "{", "order_id", "}">>,
      order_cancel |-> <<"/orders/", "{", "order_id", "}">>,
      amo_place |-> <<"/amo">>,
      amo_modify |-> <<"/amo/", "{", "order_id", "}">>,
      amo_cancel |-> <<"/amo/", "{", "order_id", "}">>,
      trades |-> <<"/trades">>,
      positions |-> <<"/positions">>,
      holdings |-> <<"/holdings">>,
      scrips |-> <<"/scrips/", "{", "exchange", "}">>,
      quote |-> <<"/quote/", "{", "exchange", "}", "/", "{", "tradingsymbol", "}">>,
      messages_admin |-> <<"/messages/admin">>,
      messages_exchange |-> <<"/messages/exchange">> ]

\* class attribute _session_hook = None, read when the instance has none
ClassSessionHook == None

-----------------------------------------------------------------------------
(* Kite.__init__, session_hook, set_token *)

NoKite == [constructed |-> FALSE]

NewKite(user_id, token, root) ==
    [ constructed |-> TRUE,
      user_id |-> user_id,
      token |-> token,
      root |-> IF Truthy(root) THEN root ELSE Unset,
      _session_hook |-> Unset ]

\* attribute lookup self._session_hook: instance first, then class
SessionHookOf(k) ==
    IF k._session_hook # Unset THEN k._session_hook ELSE ClassSessionHook

Idle(t) == pc[t] = "idle"

Construct(t, c, user_id, token, root) ==
    /\ Idle(t)
    /\ kites' = [kites EXCEPT ![c] = NewKite(user_id, token, root)]
    /\ lastHook' = [lastHook EXCEPT ![c] = None]
    /\ UNCHANGED <<defaults, pc, frame, sent, resp, rv, result, hookCalls, ncalls>>

session_hook(t, c, method) ==
    /\ Idle(t)
    /\ kites[c].constructed
    /\ kites' = [kites EXCEPT ![c]._session_hook = method]
    /\ lastHook' = [lastHook EXCEPT ![c] = method]
    /\ UNCHANGED <<defaults, pc, frame, sent, resp, rv, result, hookCalls, ncalls>>

set_token(t, c, token) ==
    /\ Idle(t)
    /\ kites[c].constructed
    /\ kites' = [kites EXCEPT ![c].token = token]
    /\ UNCHANGED <<defaults, pc, frame, sent, resp, rv, result, hookCalls, ncalls, lastHook>>

-----------------------------------------------------------------------------
(* Endpoint catalog: the method, the route and the parameter keys each      *)
(* endpoint passes; dflt = the endpoint passes no params, so the alias's    *)
(* default dict is used; extract = the endpoint indexes ["order_id"].       *)

Endpoint(name, verb, route, keys, dflt, extract) ==
    [name |-> name, verb |-> verb, route |-> route, keys |-> keys,
     dflt |-> dflt, extract |-> extract]

Endpoints ==
    { Endpoint("login", "POST", "login", {"password"}, FALSE, FALSE),
      Endpoint("session_hash", "GET", "session_hash", {}, TRUE, FALSE),
      Endpoint("logout", "POST", "logout", {}, TRUE, FALSE),
      Endpoint("profile", "GET", "profile", {}, TRUE, FALSE),
      Endpoint("margins", "GET", "margins", {"segment"}, FALSE, FALSE),
      Endpoint("order_info", "GET", "order_info", {"order_id"}, FALSE, FALSE),
      Endpoint("order_place", "POST", "orders", {"exchange"}, FALSE, TRUE),
      Endpoint("order_modify", "PUT", "order_modify", {"order_id"}, FALSE, TRUE),
      Endpoint("order_cancel", "DELETE", "order_cancel", {"order_id"}, FALSE, TRUE),
      Endpoint("amo_place", "POST", "amo_place", {"exchange"}, FALSE, TRUE),
      Endpoint("amo_modify", "PUT", "amo_modify", {"order_id"}, FALSE, TRUE),
      Endpoint("amo_cancel", "DELETE", "amo_cancel", {"order_id"}, FALSE, TRUE),
      Endpoint("orders", "GET", "orders", {}, TRUE, FALSE),
      Endpoint("trades", "GET", "trades", {}, TRUE, FALSE),
      Endpoint("positions", "GET", "positions", {}, TRUE, FALSE),
      Endpoint("holdings", "GET", "holdings", {}, TRUE, FALSE),
      Endpoint("quote", "GET", "quote", {"exchange", "tradingsymbol"}, FALSE, FALSE),
      Endpoint("messages_admin", "GET", "messages_admin", {}, TRUE, FALSE),
      Endpoint("messages_exchange", "GET", "messages_exchange", {}, TRUE, FALSE) }

-----------------------------------------------------------------------------
(* Kite._request, lines 624-656: building and sending the request *)

\* params["user_id"] = self.user_id
InjectUserId(params, k) == Put(params, "user_id", Str(k.user_id))

\* if self.token: params["token"] = self.token
InjectToken(params, k) ==
    IF Truthy(k.token) THEN Put(params, "token", Str(k.token)) ELSE params

\* "{" in uri
HasBrace(uri) == \E i \in 1..Len(uri) : uri[i] = "{"

\* str.replace(pat, rep): every non-overlapping occurrence, left to right
RECURSIVE Replace(_, _, _)
Replace(s, pat, rep) ==
    IF Len(s) < Len(pat) THEN s
    ELSE IF SubSeq(s, 1, Len(pat)) = pat
         THEN rep \o Replace(SubSeq(s, Len(pat) + 1, Len(s)), pat, rep)
         ELSE <<Head(s)>> \o Replace(Tail(s), pat, rep)

\* for k in params: uri = uri.replace("{" + k + "}", str(params[k]))
RECURSIVE Substitute(_, _, _)
Substitute(uri, params, order) ==
    IF order = <<>> THEN uri
    ELSE Substitute(Replace(uri, <<"{", Head(order), "}">>, params[Head(order)]),
                    params, Tail(order))

\* the orders in which `for k in params` may visit the keys of a dict
IterOrders(params) ==
    LET K == DOMAIN params
        n == Cardinality(K)
    IN  { s \in [1..n -> K] : \A i, j \in 1..n : i # j => s[i] # s[j] }

\* the loop of line 638 runs only when "{" in uri
LoopOrders(route, params) ==
    IF HasBrace(_routes[route]) THEN IterOrders(params) ELSE {<<>>}

\* uri = self._routes[route]; substitution only when "{" in uri
ResolveUri(route, params, order) ==
    IF HasBrace(_routes[route])
    THEN Substitute(_routes[route], params, order)
    ELSE _routes[route]

\* url = self._root + uri
Url(k, uri) == <<_root>> \o uri

\* requests.request(method, url, data=params if POST, params=params otherwise)
HttpRequest(verb, url, params) ==
    [ verb |-> verb,
      url |-> url,
      carrier |-> IF verb = "POST" THEN "data" ELSE "params",
      payload |-> params ]

-----------------------------------------------------------------------------
(* What the transport can answer *)

\* exception classes requests.request can raise, each with the classes an
\* `except` clause matches it by (the class itself and its bases)
ExcBases ==
    [ ConnectionError |-> {"ConnectionError", "RequestException", "Exception"},
      ConnectTimeout |-> {"ConnectTimeout", "ConnectionError", "Timeout",
                          "RequestException", "Exception"},
      ReadTimeout |-> {"ReadTimeout", "Timeout", "RequestException", "Exception"},
      HTTPError |-> {"HTTPError", "RequestException", "Exception"},
      TooManyRedirects |-> {"TooManyRedirects", "RequestException", "Exception"} ]

TransportExceptions == DOMAIN ExcBases

IsInstance(e, cls) == cls \in ExcBases[e]

TransportFailure(e) == [kind |-> "exception", exc |-> e, message |-> "transport"]

HttpResponse(ctype, code, body) ==
    [kind |-> "response", ctype |-> ctype, status_code |-> code, body |-> body]

StatusCodes == {200, 400, 403}

Unparsable == [pytype |-> "garbage"]
JsonList == [pytype |-> "list"]
ImageBytes == PyStr("jpeg-bytes")

DataValues ==
    { PyDict([order_id |-> PyStr("141119000062604")]),
      PyDict([user_name |-> PyStr("name")]) }

ErrorTypes ==
    { "GeneralException", "UserException", "TwoFAException", "OrderException",
      "InputException", "DataException", "NetworkException" }

\* JSON error envelopes: error_type, message and questions may each be absent
ErrorEnvelopes ==
    LET base == [status |-> "error"]
        withType == {base} \cup
                    { Put(base, "error_type", et) : et \in ErrorTypes \cup {"Bogus"} }
        withMsg == withType \cup { Put(d, "message", "boom") : d \in withType }
    IN  withMsg \cup { Put(d, "questions", "q-list") : d \in withMsg }

\* JSON envelopes that are not errors: status ok / something else / absent
PlainEnvelopes ==
    { [status |-> s, data |-> d] : s \in {"ok", "fail"}, d \in DataValues }
    \cup { [status |-> "ok"] }
    \cup { [data |-> d] : d \in DataValues }

JsonBodies ==
    {Unparsable, JsonList} \cup { PyDict(e) : e \in ErrorEnvelopes \cup PlainEnvelopes }

Responses ==
    { TransportFailure(e) : e \in TransportExceptions }
    \cup { HttpResponse("application/json", c, b) : c \in StatusCodes, b \in JsonBodies }
    \cup { HttpResponse(ct, c, ImageBytes) :
             ct \in {"image/jpeg", "image/jpg", "text/html"}, c \in StatusCodes }

OkResponse == HttpResponse("application/json", 200, PyDict([status |-> "ok", data |->
                  PyDict([order_id |-> PyStr("141119000062604")])]))

-----------------------------------------------------------------------------
(* Kite._request, lines 657-716: classifying the answer *)

Return(v) == [kind |-> "return", value |-> v]
Raise(exc, message) == [kind |-> "raise", exc |-> exc, message |-> message]
RaiseCode(exc, message, code) ==
    [kind |-> "raise", exc |-> exc, message |-> message, code |-> code]

\* the except clauses of lines 657-664, tried in order
TransportError(e) ==
    IF IsInstance(e.exc, "ConnectionError")
    THEN RaiseCode("ClientNetworkException", "Gateway connection error", 503)
    ELSE IF IsInstance(e.exc, "Timeout")
    THEN RaiseCode("ClientNetworkException", "Gateway timed out", 504)
    ELSE IF IsInstance(e.exc, "HTTPError")
    THEN RaiseCode("ClientNetworkException", "Invalid response from gatway", 502)
    ELSE RaiseCode("ClientNetworkException", e.message, 500)

\* lines 683-709: data is the parsed envelope
NativeError(data, code) ==
    IF "error_type" \notin DOMAIN data THEN Raise("KeyError", "error_type")
    ELSE IF "message" \notin DOMAIN data THEN Raise("KeyError", "message")
    ELSE CASE data.error_type = "GeneralException" ->
                  RaiseCode("GeneralException", data.message, code)
           [] data.error_type = "UserException" ->
                  RaiseCode("UserException", data.message, code)
           [] data.error_type = "TwoFAException" ->
                  IF "questions" \notin DOMAIN data
                  THEN Raise("KeyError", "questions")
                  ELSE [kind |-> "raise", exc |-> "TwoFAException",
                        message |-> data.message, code |-> code,
                        questions |-> data.questions]
           [] data.error_type = "OrderException" ->
                  RaiseCode("OrderException", data.message, code)
           [] data.error_type = "InputException" ->
                  RaiseCode("InputException", data.message, code)
           [] data.error_type = "DataException" ->
                  RaiseCode("DataException", data.message, code)
           [] data.error_type = "NetworkException" ->
                  RaiseCode("NetworkException", data.message, code)
           [] OTHER ->
                  RaiseCode("GeneralException", data.message, code)

\* a variant that forgets the status test: the hook runs on every api error
Intercepts_AnyStatus(k, code) == Truthy(SessionHookOf(k))

\* lines 678-679: the 403 session interception applies
Intercepts(k, code) == code = 403 /\ Truthy(SessionHookOf(k))

Outcome(out, hooks) == [out |-> out, hooks |-> hooks]

\* lines 670-711
ClassifyJson(k, r) ==
    IF r.body = Unparsable
    THEN Outcome(Raise("DataException", "Unparsable response"), <<>>)
    ELSE IF r.body.pytype # "dict"
    THEN Outcome(Raise("TypeError", "status"), <<>>)
    ELSE LET data == r.body.items IN
         IF "status" \notin DOMAIN data
         THEN Outcome(Raise("KeyError", "status"), <<>>)
         ELSE IF data.status = "error"
         THEN IF Intercepts(k, r.status_code)
              THEN Outcome(Return(NoneObj), <<SessionHookOf(k)>>)
              ELSE Outcome(NativeError(data, r.status_code), <<>>)
         ELSE IF "data" \notin DOMAIN data
         THEN Outcome(Raise("KeyError", "data"), <<>>)
         ELSE Outcome(Return(data.data), <<>>)

\* a variant whose image test knows "image/jpeg" only
Classify_JpegOnly(k, r) ==
    IF r.kind = "exception" THEN Outcome(TransportError(r), <<>>)
    ELSE IF r.ctype = "application/json" THEN ClassifyJson(k, r)
    ELSE IF r.ctype = "image/jpeg" THEN Outcome(Return(r.body), <<>>)
    ELSE Outcome(Raise("DataException", "Invalid response format"), <<>>)

\* lines 657-716: everything after requests.request was called
Classify(k, r) ==
    IF r.kind = "exception" THEN Outcome(TransportError(r), <<>>)
    ELSE IF r.ctype = "application/json" THEN ClassifyJson(k, r)
    ELSE IF r.ctype \in {"image/jpeg", "image/jpg"} THEN Outcome(Return(r.body), <<>>)
    ELSE Outcome(Raise("DataException", "Invalid response format"), <<>>)

\* x["order_id"] on what _request returned
Subscript(v, key) ==
    IF v.pytype = "dict"
    THEN IF key \in DOMAIN v.items THEN Return(v.items[key]) ELSE Raise("KeyError", key)
    ELSE Raise("TypeError", key)

\* the endpoint method's own outcome: _request's, indexed where the method does
EndpointResult(e, out) ==
    IF e.extract /\ out.kind = "return" THEN Subscript(out.value, "order_id") ELSE out

-----------------------------------------------------------------------------
(* An endpoint call by a single-threaded caller: the whole of the endpoint  *)
(* method and of Kite._request in one step.                                 *)

NoFrame == [kite |-> "none"]
NoRequest == [verb |-> "none"]
NoResponse == [kind |-> "none"]
NoOutcome == [kind |-> "none"]

NewFrame(c, e, args) == [kite |-> c, endpoint |-> e, own |-> args, uri |-> <<>>]

\* the dict _request works on: the alias's default dict, or the caller's own
EntryParams(e, args) == IF e.dflt THEN defaults[e.verb] ELSE args

Call(t, c, e, args, r) ==
    /\ Idle(t)
    /\ kites[c].constructed
    /\ LET k == kites[c]
           params == InjectToken(InjectUserId(EntryParams(e, args), k), k)
           done == Classify(k, r)
       IN  \E order \in LoopOrders(e.route, params) :
             /\ defaults' = IF e.dflt THEN [defaults EXCEPT ![e.verb] = params]
                            ELSE defaults
             /\ frame' = [frame EXCEPT ![t] =
                            [NewFrame(c, e, IF e.dflt THEN args ELSE params)
                               EXCEPT !.uri = ResolveUri(e.route, params, order)]]
             /\ sent' = [sent EXCEPT ![t] =
                            HttpRequest(e.verb,
                                        Url(k, ResolveUri(e.route, params, order)),
                                        params)]
             /\ resp' = [resp EXCEPT ![t] = r]
             /\ rv' = [rv EXCEPT ![t] = done.out]
             /\ result' = [result EXCEPT ![t] = EndpointResult(e, done.out)]
             /\ hookCalls' = [hookCalls EXCEPT ![t] = done.hooks]
    /\ pc' = [pc EXCEPT ![t] = "returned"]
    /\ UNCHANGED <<kites, ncalls, lastHook>>

\* a direct call of an alias (_get, _post, _put, _delete) with explicit params
Dispatch(t, c, verb, route, params, r) ==
    Call(t, c, Endpoint("_alias", verb, route, DOMAIN params, FALSE, FALSE), params, r)

\* the caller takes the outcome and goes on
Resume(t) ==
    /\ pc[t] = "returned"
    /\ pc' = [pc EXCEPT ![t] = "idle"]
    /\ frame' = [frame EXCEPT ![t] = NoFrame]
    /\ sent' = [sent EXCEPT ![t] = NoRequest]
    /\ resp' = [resp EXCEPT ![t] = NoResponse]
    /\ rv' = [rv EXCEPT ![t] = NoOutcome]
    /\ result' = [result EXCEPT ![t] = NoOutcome]
    /\ hookCalls' = [hookCalls EXCEPT ![t] = <<>>]
    /\ UNCHANGED <<kites, defaults, ncalls, lastHook>>

-----------------------------------------------------------------------------
(* The same call, statement by statement, for callers on several threads *)

Self(t) == kites[frame[t].kite]

ParamsOf(t) ==
    IF frame[t].endpoint.dflt THEN defaults[frame[t].endpoint.verb] ELSE frame[t].own

\* an assignment into the dict `params` refers to
StoreParams(t, p) ==
    IF frame[t].endpoint.dflt
    THEN /\ defaults' = [defaults EXCEPT ![frame[t].endpoint.verb] = p]
         /\ UNCHANGED frame
    ELSE /\ frame' = [frame EXCEPT ![t].own = p]
         /\ UNCHANGED defaults

\* the endpoint method calls the alias, which calls _request
Begin(t, c, e, args) ==
    /\ Idle(t)
    /\ ncalls[t] < MaxCalls
    /\ kites[c].constructed
    /\ frame' = [frame EXCEPT ![t] = NewFrame(c, e, args)]
    /\ pc' = [pc EXCEPT ![t] = "user_id"]
    /\ ncalls' = [ncalls EXCEPT ![t] = @ + 1]
    /\ UNCHANGED <<kites, defaults, sent, resp, rv, result, hookCalls, lastHook>>

\* line 628
StepUserId(t) ==
    /\ pc[t] = "user_id"
    /\ StoreParams(t, InjectUserId(ParamsOf(t), Self(t)))
    /\ pc' = [pc EXCEPT ![t] = "token"]
    /\ UNCHANGED <<kites, sent, resp, rv, result, hookCalls, ncalls, lastHook>>

\* lines 631-632
StepToken(t) ==
    /\ pc[t] = "token"
    /\ StoreParams(t, InjectToken(ParamsOf(t), Self(t)))
    /\ pc' = [pc EXCEPT ![t] = "uri"]
    /\ UNCHANGED <<kites, sent, resp, rv, result, hookCalls, ncalls, lastHook>>

\* lines 634-641
StepUri(t) ==
    /\ pc[t] = "uri"
    /\ \E order \in LoopOrders(frame[t].endpoint.route, ParamsOf(t)) :
         frame' = [frame EXCEPT ![t].uri =
                     ResolveUri(frame[t].endpoint.route, ParamsOf(t), order)]
    /\ pc' = [pc EXCEPT ![t] = "send"]
    /\ UNCHANGED <<kites, defaults, sent, resp, rv, result, hookCalls, ncalls, lastHook>>

\* lines 648-656: requests.request reads the dict when it is called
StepSend(t) ==
    /\ pc[t] = "send"
    /\ sent' = [sent EXCEPT ![t] =
                  HttpRequest(frame[t].endpoint.verb, Url(Self(t), frame[t].uri),
                              ParamsOf(t))]
    /\ pc' = [pc EXCEPT ![t] = "receive"]
    /\ UNCHANGED <<kites, defaults, frame, resp, rv, result, hookCalls, ncalls, lastHook>>

\* lines 657-716 and the endpoint's own return statement
StepReceive(t, r) ==
    /\ pc[t] = "receive"
    /\ LET done == Classify(Self(t), r) IN
         /\ resp' = [resp EXCEPT ![t] = r]
         /\ rv' = [rv EXCEPT ![t] = done.out]
         /\ result' = [result EXCEPT ![t] = EndpointResult(frame[t].endpoint, done.out)]
         /\ hookCalls' = [hookCalls EXCEPT ![t] = done.hooks]
    /\ pc' = [pc EXCEPT ![t] = "returned"]
    /\ UNCHANGED <<kites, defaults, frame, sent, ncalls, lastHook>>

-----------------------------------------------------------------------------
(* Specifications *)

ArgValues == { <<"val">>, <<"alt">> }
PlainArg == <<"val">>

UserIdOf == [k1 |-> "u1", k2 |-> "u2"]

Start ==
    /\ defaults = [v \in Verbs |-> EmptyDict]
    /\ pc = [t \in Threads |-> "idle"]
    /\ frame = [t \in Threads |-> NoFrame]
    /\ sent = [t \in Threads |-> NoRequest]
    /\ resp = [t \in Threads |-> NoResponse]
    /\ rv = [t \in Threads |-> NoOutcome]
    /\ result = [t \in Threads |-> NoOutcome]
    /\ hookCalls = [t \in Threads |-> <<>>]
    /\ ncalls = [t \in Threads |-> 0]
    /\ lastHook = [c \in Kites |-> None]

\* no Kite object exists yet
Init ==
    /\ kites = [c \in Kites |-> NoKite]
    /\ Start

\* the endpoints that differ in how the answer is handled: with and without
\* the default dict, with and without the ["order_id"] subscript
AnswerEndpoints ==
    { e \in Endpoints : e.extract \/ e.name \in {"profile", "logout", "margins"} }

\* One caller, one Kite object, every answer the transport can give.
Next ==
    \/ \E token \in {"tA", None} : Construct("t1", "k1", UserIdOf["k1"], token, None)
    \/ set_token("t1", "k1", "tA")
    \/ \E h \in Hooks : session_hook("t1", "k1", h)
    \/ \E e \in AnswerEndpoints, r \in Responses :
         Call("t1", "k1", e, [x \in e.keys |-> PlainArg], r)
    \/ Resume("t1")

Spec == Init /\ [][Next]_vars

\* One caller, two Kite objects, every endpoint and argument, one answer.
NextIdentity ==
    \/ \E c \in Kites, token \in Tokens \cup {None}, root \in Roots \cup {None} :
         Construct("t1", c, UserIdOf[c], token, root)
    \/ \E c \in Kites, token \in Tokens : set_token("t1", c, token)
    \/ \E c \in Kites, e \in Endpoints :
         \E args \in [e.keys -> ArgValues] : Call("t1", c, e, args, OkResponse)
    \/ \E c \in Kites, K \in SUBSET {"segment"} :
         \E params \in [K -> ArgValues] :
            Dispatch("t1", c, "GET", "margins", params, OkResponse)
    \/ Resume("t1")

SpecIdentity == Init /\ [][NextIdentity]_vars

\* Two Kite objects with different user ids, each used by a thread of its own.
KiteOf == [t1 |-> "k1", t2 |-> "k2"]

InitThreads ==
    /\ \E token \in [Kites -> Tokens \cup {None}] :
         kites = [c \in Kites |-> NewKite(UserIdOf[c], token[c], None)]
    /\ Start

NextThreads ==
    \/ \E t \in Threads, e \in Endpoints :
         \E args \in [e.keys -> {PlainArg}] : Begin(t, KiteOf[t], e, args)
    \/ \E t \in Threads : StepUserId(t)
    \/ \E t \in Threads : StepToken(t)
    \/ \E t \in Threads : StepUri(t)
    \/ \E t \in Threads : StepSend(t)
    \/ \E t \in Threads : StepReceive(t, OkResponse)
    \/ \E t \in Threads : Resume(t)

SpecThreads == InitThreads /\ [][NextThreads]_vars

-----------------------------------------------------------------------------
(* Properties *)

Returned(t) == pc[t] = "returned"
HasSent(t) == sent[t] # NoRequest
Issuer(t) == kites[frame[t].kite]

\* the answer of thread t's call is a JSON body that parsed to a dict
JsonDict(t) ==
    /\ resp[t].kind = "response"
    /\ resp[t].ctype = "application/json"
    /\ resp[t].body.pytype = "dict"

Envelope(t) == resp[t].body.items

\* ... and that dict is an error envelope
ErrorEnvelope(t) ==
    /\ JsonDict(t)
    /\ "status" \in DOMAIN Envelope(t)
    /\ Envelope(t).status = "error"

\* the table of section 4.4: error_type -> kind of the typed error
TableKind(env) ==
    IF "error_type" \in DOMAIN env /\ env.error_type \in ErrorTypes
    THEN env.error_type
    ELSE "GeneralException"

\* an error envelope that carries every field its error_type needs
Complete(env) ==
    /\ {"error_type", "message"} \subseteq DOMAIN env
    /\ env.error_type = "TwoFAException" => "questions" \in DOMAIN env

HookRegistered(t) == lastHook[frame[t].kite] # None

\* C1: the parameters of every request sent contain `token` if and only if
\* the Kite object that issued the call has a token set, and then its value
\* is that object's current token.
C1_TokenIffSet ==
    \A t \in Threads :
        HasSent(t) =>
            /\ ("token" \in DOMAIN sent[t].payload) <=> (Issuer(t).token # None)
            /\ ("token" \in DOMAIN sent[t].payload) =>
                   sent[t].payload["token"] = Str(Issuer(t).token)

\* C2: on a JSON error envelope with HTTP status 403, every endpoint, the
\* order_id-extracting ones included, invokes a registered hook exactly
\* once and returns no data and no error; with no hook registered it raises
\* the typed error its error_type maps to.
C2_HookShortCircuit ==
    \A t \in Threads :
        (Returned(t) /\ ErrorEnvelope(t) /\ resp[t].status_code = 403) =>
            IF HookRegistered(t)
            THEN /\ hookCalls[t] = <<lastHook[frame[t].kite]>>
                 /\ result[t] = Return(NoneObj)
            ELSE Complete(Envelope(t)) =>
                 /\ hookCalls[t] = <<>>
                 /\ result[t].kind = "raise"
                 /\ result[t].exc = TableKind(Envelope(t))

\* C3: every JSON error envelope the hook does not short-circuit raises the
\* typed error of the table, with the envelope's message and the HTTP status
\* as code (and the questions for TwoFAException); a missing or unknown
\* error_type gives GeneralException, and nothing else escapes when
\* error_type or questions are absent.
C3_ErrorMappingTotal ==
    \A t \in Threads :
        (Returned(t) /\ ErrorEnvelope(t) /\ hookCalls[t] = <<>>
                     /\ "message" \in DOMAIN Envelope(t)) =>
            /\ rv[t].kind = "raise"
            /\ rv[t].exc = TableKind(Envelope(t))
            /\ rv[t].message = Envelope(t).message
            /\ rv[t].code = resp[t].status_code

\* the failure category of a transport exception
IsTimeout(e) == IsInstance(e, "Timeout")
IsConnectionFailure(e) == IsInstance(e, "ConnectionError") /\ ~IsTimeout(e)
IsMalformed(e) == IsInstance(e, "HTTPError")

\* C4: a transport failure is raised as a network failure whose code is 504
\* for any timeout (a connect timeout included), 503 for connection
\* refused/unreachable, 502 for a malformed response and 500 otherwise.
C4_TransportCodes ==
    \A t \in Threads :
        (Returned(t) /\ resp[t].kind = "exception") =>
            /\ rv[t].kind = "raise"
            /\ rv[t].exc = "ClientNetworkException"
            /\ rv[t].code = IF IsTimeout(resp[t].exc) THEN 504
                            ELSE IF IsConnectionFailure(resp[t].exc) THEN 503
                            ELSE IF IsMalformed(resp[t].exc) THEN 502
                            ELSE 500

\* C5: a Kite object constructed with a root override sends every request to
\* a URL that starts with that root; the default root is used only when no
\* override was given.
C5_RootOverride ==
    \A t \in Threads :
        HasSent(t) =>
            Head(sent[t].url) = IF Issuer(t).root # Unset THEN Issuer(t).root
                                ELSE _root

\* C6: no request is sent to a URL that still contains "{": either every
\* placeholder was replaced, or the call failed with an input error and
\* nothing was sent.
C6_NoBraceInUrl ==
    \A t \in Threads :
        Returned(t) =>
            \/ HasSent(t) /\ ~HasBrace(sent[t].url)
            \/ ~HasSent(t) /\ result[t].kind = "raise"
                           /\ result[t].exc = "InputException"

\* C7: an answer with content-type image/jpeg or image/jpg makes _request
\* return the body as it is, whatever the HTTP status: no typed error, no
\* session hook.
C7_ImageRawBytes ==
    \A t \in Threads :
        (Returned(t) /\ resp[t].kind = "response"
                     /\ resp[t].ctype \in {"image/jpeg", "image/jpg"}) =>
            /\ rv[t] = Return(resp[t].body)
            /\ hookCalls[t] = <<>>

\* an image answer with status 403 was handled while a hook was registered
C7_Witness ==
    \E t \in Threads :
        /\ Returned(t)
        /\ resp[t].kind = "response"
        /\ resp[t].ctype = "image/jpg"
        /\ resp[t].status_code = 403
        /\ HookRegistered(t)
        /\ rv[t] = Return(ImageBytes)

\* _request handed data back to its caller (not the hook's empty return)
Success(t) == rv[t].kind = "return" /\ hookCalls[t] = <<>>

\* C8: for a JSON answer _request returns success data if and only if the
\* envelope's status is "ok", and then exactly the envelope's data; an
\* envelope with any other status, or none, is never returned as success.
C8_SuccessIffOk ==
    \A t \in Threads :
        (Returned(t) /\ JsonDict(t)) =>
            LET env == Envelope(t)
                ok == "status" \in DOMAIN env /\ env.status = "ok"
            IN  /\ (ok /\ "data" \in DOMAIN env) =>
                       (Success(t) /\ rv[t].value = env.data)
                /\ ~ok => ~Success(t)

\* C9: the only callback a call invokes is the one last registered on the
\* Kite object that issued it, at most once, and only when the answer is a
\* JSON error envelope with HTTP status 403.
C9_HookOnlyOn403 ==
    \A t \in Threads :
        hookCalls[t] # <<>> =>
            /\ hookCalls[t] = <<lastHook[frame[t].kite]>>
            /\ lastHook[frame[t].kite] \in Hooks
            /\ ErrorEnvelope(t)
            /\ resp[t].status_code = 403

\* the second of two registered hooks was invoked by a call
C9_Witness ==
    \E t \in Threads :
        /\ Returned(t)
        /\ hookCalls[t] = <<"h2">>
        /\ ErrorEnvelope(t)
        /\ frame[t].endpoint.name = "order_cancel"

\* C10: with two Kite objects used from two threads, the request sent for a
\* call carries the user_id and the token of the object that issued it,
\* never those of the other object.
C10_Isolation ==
    \A t \in Threads :
        HasSent(t) =>
            /\ sent[t].payload["user_id"] = Str(Issuer(t).user_id)
            /\ ("token" \in DOMAIN sent[t].payload) =>
                   sent[t].payload["token"] = Str(Issuer(t).token)

====
